---------------------------- MODULE Spec2Model ----------------------------
(***************************************************************************)
(* Model of sphinxcontrib/bibtex/cache.py: the Cache registry (bibfiles,   *)
(* _bibliographies, _cited, _enum_count), BibfileCache and                 *)
(* BibliographyCache.                                                      *)
(*                                                                         *)
(* Representation.                                                         *)
(*  - A Python dict that the code iterates (_bibliographies, its inner     *)
(*    dicts, _cited) is a sequence of [key, value] entries with distinct   *)
(*    keys; the sequence order is the iteration order.  The code uses      *)
(*    itervalues(), i.e. Python 2, where the iteration order of a dict is  *)
(*    implementation defined: a new key is entered at a nondeterministic   *)
(*    position (the end of the sequence, insertion order, is one of the    *)
(*    choices), and removing a key keeps the order of the others.          *)
(*  - A dict that is only indexed (bibfiles, _enum_count) is a function.   *)
(*  - An oset is a sequence without duplicates, in insertion order.        *)
(*  - A str that is sorted (a docname) is the sequence of its code points. *)
(*  - Python's None / optional value: <<>> is None, <<v>> is the value v.  *)
(*  - last records the most recent call: its name, arguments and outcome   *)
(*    (the exception raised and its message, or "" and the returned value).*)
(*  - registered is a history variable: the (docname, id) pairs of the     *)
(*    registered directives, in the order of their registration.           *)
(***************************************************************************)
EXTENDS Integers, Sequences, FiniteSets, TLC

\* ----------------------------------------------------------------- bounds
MaxCount == 1        \* enumeration counters range over 0..MaxCount
MaxSize == 3         \* items held at one time: directives, cited keys,
                     \* counters and .bib file entries
MaxMtime == 1        \* modification times of a .bib file: 0..MaxMtime
MaxEnum == 4         \* enumeration counters of SpecCount range over 0..MaxEnum

\* docnames "ab" and "b" (code points a = 1, b = 2): "ab" < "b" as strings,
\* although "b" is the shorter one
Docnames == {<<1, 2>>, <<2>>}
Keys == {"x", "y"}
Ids == {"bib1", "bib2"}
Files == {"refs.bib"}
Datas == {{"x"}}     \* parsed .bib data: the set of its entry keys

VARIABLES bibfiles, bibliographies, cited, enum_count, last, registered

vars == <<bibfiles, bibliographies, cited, enum_count, last, registered>>

\* ----------------------------------------------------------- Python values
None == <<>>
Some(v) == <<v>>

\* a call's outcome
Returned(v) == [raised |-> "", value |-> Some(v)]
ReturnedNone == [raised |-> "", value |-> None]
Raised(e, msg) == [raised |-> e, value |-> Some(msg)]

\* str comparison: lexicographic on code points, a proper prefix is smaller
RECURSIVE StrLess(_, _)
StrLess(s, t) ==
    IF t = <<>> THEN FALSE
    ELSE IF s = <<>> THEN TRUE
    ELSE IF Head(s) # Head(t) THEN Head(s) < Head(t)
    ELSE StrLess(Tail(s), Tail(t))

\* mutant of sorted: the documents are taken in the dict's iteration order
sorted_IterationOrder(s) == s

\* sorted(iterable) of distinct strs: the ascending list
RECURSIVE sorted(_)
sorted(s) ==
    IF s = <<>> THEN <<>>
    ELSE LET i == CHOOSE j \in 1..Len(s) :
                      \A k \in 1..Len(s) : k = j \/ StrLess(s[j], s[k])
         IN <<s[i]>> \o sorted([k \in 1..(Len(s) - 1) |->
                                   IF k < i THEN s[k] ELSE s[k + 1]])

\* ------------------------------------------------------------------- dict
DictKeys(d) == [i \in 1..Len(d) |-> d[i].key]
DictValues(d) == [i \in 1..Len(d) |-> d[i].value]
DictHas(d, k) == \E i \in 1..Len(d) : d[i].key = k
DictGet(d, k) == d[CHOOSE i \in 1..Len(d) : d[i].key = k].value
\* d.pop(k, None)
DictPop(d, k) == SelectSeq(d, LAMBDA e : e.key # k)
\* d[k] = v for a key d holds: the value is replaced in place
DictReplace(d, k, v) ==
    [i \in 1..Len(d) |-> IF d[i].key = k THEN [key |-> k, value |-> v] ELSE d[i]]
\* d[k] = v for a key d does not hold: every position the entry can take
DictInserts(d, k, v) ==
    { [i \in 1..(Len(d) + 1) |->
          IF i < p THEN d[i]
          ELSE IF i = p THEN [key |-> k, value |-> v]
          ELSE d[i - 1]] : p \in 1..(Len(d) + 1) }
\* defaultdict.__getitem__: d[k] enters the default for a missing key
DefaultGets(d, k, default) ==
    IF DictHas(d, k) THEN {d} ELSE DictInserts(d, k, default)

\* ------------------------------------------------------------------- oset
OsetHas(s, key) == \E i \in 1..Len(s) : s[i] = key
\* mutant of oset_add: a key added again moves to the end
oset_add_MovesToEnd(s, key) == Append(SelectSeq(s, LAMBDA e : e # key), key)

\* mutant of oset_add: a list, the key is appended whether held or not
oset_add_Appends(s, key) == Append(s, key)

oset_add(s, key) == IF OsetHas(s, key) THEN s ELSE Append(s, key)

RECURSIVE Flatten(_)
Flatten(ss) == IF ss = <<>> THEN <<>> ELSE Head(ss) \o Flatten(Tail(ss))

\* ------------------------------------------------------------ BibfileCache
NegInf == [sign |-> "-inf", t |-> 0]
Float(n) == [sign |-> "", t |-> n]
FloatLess(a, b) ==
    IF a.sign = "-inf" THEN b.sign # "-inf"
    ELSE b.sign # "-inf" /\ a.t < b.t
BibliographyData == {}
\* mutant of BibfileCache: "mtime or -inf", a modification time 0 is lost
BibfileCache_Truthy(mtime, data) ==
    [mtime |-> IF mtime # None /\ mtime[1] # Float(0) THEN mtime[1] ELSE NegInf,
     data |-> IF data # None THEN data[1] ELSE BibliographyData]

BibfileCache(mtime, data) ==
    [mtime |-> IF mtime # None THEN mtime[1] ELSE NegInf,
     data |-> IF data # None THEN data[1] ELSE BibliographyData]

\* ------------------------------------------------------- BibliographyCache
\* labels is the one field the Cache reads; the others are carried along.
\* The directives registered here: one labels x only, one labels x and y.
BibliographyCache(labels) ==
    [labels |-> IF labels # None THEN labels[1] ELSE <<>>]
LabelMaps == {[k \in {"x"} |-> "L1"], [k \in {"x", "y"} |-> "L2"]}
BibCaches == { BibliographyCache(Some(m)) : m \in LabelMaps }

\* ------------------------------------------------------------------ sizes
RECURSIVE SumLen(_)
SumLen(ss) == IF ss = <<>> THEN 0 ELSE Len(Head(ss)) + SumLen(Tail(ss))
SizeOf(files, b, c, e) ==
    Cardinality(DOMAIN files) + SumLen(DictValues(b)) + SumLen(DictValues(c))
        + Cardinality(DOMAIN e)

\* ------------------------------------------------------------------ Cache
Init ==
    /\ bibfiles = <<>>
    /\ bibliographies = <<>>
    /\ cited = <<>>
    /\ enum_count = <<>>
    /\ last = [op |-> "__init__", docname |-> <<>>, arg |-> None,
               result |-> ReturnedNone]
    /\ registered = <<>>

Call(op, docname, arg, result) ==
    last' = [op |-> op, docname |-> docname, arg |-> arg, result |-> result]

FunPop(f, k) == [x \in DOMAIN f \ {k} |-> f[x]]
FunSet(f, k, v) == [x \in DOMAIN f \cup {k} |-> IF x = k THEN v ELSE f[x]]

\* mutant of purge: the bibliography directives of the document are kept
purge_KeepsBibliographies(docname) ==
    /\ cited' = DictPop(cited, docname)
    /\ enum_count' = FunPop(enum_count, docname)
    /\ Call("purge", docname, None, ReturnedNone)
    /\ UNCHANGED <<bibfiles, bibliographies, registered>>

\* mutant of purge: del instead of pop(docname, None)
purge_Del(docname) ==
    IF DictHas(bibliographies, docname)
    THEN /\ bibliographies' = DictPop(bibliographies, docname)
         /\ cited' = DictPop(cited, docname)
         /\ enum_count' = FunPop(enum_count, docname)
         /\ Call("purge", docname, None, ReturnedNone)
         /\ registered' = SelectSeq(registered, LAMBDA r : r.docname # docname)
         /\ UNCHANGED bibfiles
    ELSE /\ Call("purge", docname, None, Raised("KeyError", docname))
         /\ UNCHANGED <<bibfiles, bibliographies, cited, enum_count, registered>>

\* mutant of purge: the .bib file entries are dropped as well
purge_ClearsBibfiles(docname) ==
    /\ bibliographies' = DictPop(bibliographies, docname)
    /\ cited' = DictPop(cited, docname)
    /\ enum_count' = FunPop(enum_count, docname)
    /\ Call("purge", docname, None, ReturnedNone)
    /\ registered' = SelectSeq(registered, LAMBDA r : r.docname # docname)
    /\ bibfiles' = <<>>

\* mutant of purge: clear() instead of pop(docname, None)
purge_ClearsAll(docname) ==
    /\ bibliographies' = <<>>
    /\ cited' = <<>>
    /\ enum_count' = <<>>
    /\ Call("purge", docname, None, ReturnedNone)
    /\ registered' = <<>>
    /\ UNCHANGED bibfiles

purge(docname) ==
    /\ bibliographies' = DictPop(bibliographies, docname)
    /\ cited' = DictPop(cited, docname)
    /\ enum_count' = FunPop(enum_count, docname)
    /\ Call("purge", docname, None, ReturnedNone)
    /\ registered' = SelectSeq(registered, LAMBDA r : r.docname # docname)
    /\ UNCHANGED bibfiles

\* mutant of enum_inc: = 1 instead of += 1
enum_inc_SetsOne(e, docname) == FunSet(e, docname, 1)

\* self._enum_count[docname] += 1, for a docname that has a counter
enum_inc(e, docname) == FunSet(e, docname, e[docname] + 1)

\* inc_enum_count with the counters capped at cap
inc_enum_count_upto(docname, cap) ==
    /\ IF docname \in DOMAIN enum_count
       THEN /\ enum_count[docname] < cap
            /\ enum_count' = enum_inc(enum_count, docname)
            /\ Call("inc_enum_count", docname, None, ReturnedNone)
       ELSE /\ enum_count' = enum_count
            /\ Call("inc_enum_count", docname, None, Raised("KeyError", docname))
    /\ UNCHANGED <<bibfiles, bibliographies, cited, registered>>

inc_enum_count(docname) == inc_enum_count_upto(docname, MaxCount)

set_enum_count(docname, value) ==
    /\ enum_count' = FunSet(enum_count, docname, value)
    /\ SizeOf(bibfiles, bibliographies, cited, enum_count') <= MaxSize
    /\ Call("set_enum_count", docname, Some(value), ReturnedNone)
    /\ UNCHANGED <<bibfiles, bibliographies, cited, registered>>

\* mutant of get_enum_count: a missing counter reads as 0
get_enum_count_DefaultZero(docname) ==
    /\ Call("get_enum_count", docname, None,
            IF docname \in DOMAIN enum_count
            THEN Returned(enum_count[docname]) ELSE Returned(0))
    /\ UNCHANGED <<bibfiles, bibliographies, cited, enum_count, registered>>

get_enum_count(docname) ==
    /\ Call("get_enum_count", docname, None,
            IF docname \in DOMAIN enum_count
            THEN Returned(enum_count[docname]) ELSE Raised("KeyError", docname))
    /\ UNCHANGED <<bibfiles, bibliographies, cited, enum_count, registered>>

\* the values _cited can take by self._cited[docname].add(key)
add_cited_states(c, key, docname) ==
    { DictReplace(c1, docname, oset_add(DictGet(c1, docname), key)) :
          c1 \in DefaultGets(c, docname, <<>>) }

add_cited(key, docname) ==
    /\ cited' \in add_cited_states(cited, key, docname)
    /\ SizeOf(bibfiles, bibliographies, cited', enum_count) <= MaxSize
    /\ Call("add_cited", docname, Some(key), ReturnedNone)
    /\ UNCHANGED <<bibfiles, bibliographies, enum_count, registered>>

\* mutant of is_cited_in: the loop returns after the first document
is_cited_in_FirstDocOnly(c, key) == Len(c) > 0 /\ OsetHas(c[1].value, key)

is_cited_in(c, key) == \E i \in 1..Len(c) : OsetHas(c[i].value, key)
is_cited(key) == is_cited_in(cited, key)

\* a sequence without its repeated elements, first occurrences kept
RECURSIVE Unique(_)
Unique(s) ==
    IF s = <<>> THEN <<>>
    ELSE LET r == Unique(SubSeq(s, 1, Len(s) - 1))
         IN IF \E i \in 1..Len(r) : r[i] = s[Len(s)] THEN r
            ELSE Append(r, s[Len(s)])

\* mutant of all_cited_keys: a key is yielded once for all documents
all_cited_keys_Dedup(c) ==
    LET docs == sorted(DictKeys(c))
    IN Unique(Flatten([i \in 1..Len(docs) |-> DictGet(c, docs[i])]))

all_cited_keys(c) ==
    LET docs == sorted(DictKeys(c))
    IN Flatten([i \in 1..Len(docs) |-> DictGet(c, docs[i])])
get_all_cited_keys == all_cited_keys(cited)

\* mutant of all_bibliography_caches: the inner loop stops after one directive
all_bibliography_caches_FirstPerDoc(b) ==
    Flatten([i \in 1..Len(b) |->
                IF b[i].value = <<>> THEN <<>> ELSE <<b[i].value[1].value>>])

all_bibliography_caches(b) ==
    Flatten([i \in 1..Len(b) |-> DictValues(b[i].value)])
get_all_bibliography_caches == all_bibliography_caches(bibliographies)

\* mutant of label_from_key: the last match is returned, not the first
label_from_key_LastMatch(b, key) ==
    LET infos == all_bibliography_caches(b)
        hits == {i \in 1..Len(infos) : key \in DOMAIN infos[i].labels}
    IN IF hits # {}
       THEN Returned(infos[CHOOSE i \in hits : \A j \in hits : i >= j].labels[key])
       ELSE Raised("KeyError", <<key, " not found">>)

\* mutant of label_from_key: no else branch, a missing key returns None
label_from_key_ReturnsNone(b, key) ==
    LET infos == all_bibliography_caches(b)
        hits == {i \in 1..Len(infos) : key \in DOMAIN infos[i].labels}
    IN IF hits # {}
       THEN Returned(infos[CHOOSE i \in hits : \A j \in hits : i <= j].labels[key])
       ELSE ReturnedNone

label_from_key(b, key) ==
    LET infos == all_bibliography_caches(b)
        hits == {i \in 1..Len(infos) : key \in DOMAIN infos[i].labels}
    IN IF hits # {}
       THEN Returned(infos[CHOOSE i \in hits : \A j \in hits : i <= j].labels[key])
       ELSE Raised("KeyError", <<key, " not found">>)
get_label_from_key(key) ==
    /\ Call("get_label_from_key", <<>>, Some(key), label_from_key(bibliographies, key))
    /\ UNCHANGED <<bibfiles, bibliographies, cited, enum_count, registered>>

\* mutant of set_bibliography_cache: no assert, a registered id is rebound
set_bibliography_cache_Rebinds(docname, id_, bibcache) ==
    /\ \E b1 \in DefaultGets(bibliographies, docname, <<>>) :
          IF DictHas(DictGet(b1, docname), id_)
          THEN /\ bibliographies' =
                      DictReplace(b1, docname,
                                  DictReplace(DictGet(b1, docname), id_, bibcache))
               /\ Call("set_bibliography_cache", docname, Some(id_), ReturnedNone)
               /\ registered' = registered
          ELSE /\ SizeOf(bibfiles, bibliographies, cited, enum_count) < MaxSize
               /\ bibliographies' \in
                      { DictReplace(b1, docname, inner) :
                            inner \in DictInserts(DictGet(b1, docname), id_, bibcache) }
               /\ Call("set_bibliography_cache", docname, Some(id_), ReturnedNone)
               /\ registered' = Append(registered, [docname |-> docname, id |-> id_])
    /\ UNCHANGED <<bibfiles, cited, enum_count>>

set_bibliography_cache(docname, id_, bibcache) ==
    /\ \E b1 \in DefaultGets(bibliographies, docname, <<>>) :
          IF DictHas(DictGet(b1, docname), id_)
          THEN /\ bibliographies' = b1
               /\ Call("set_bibliography_cache", docname, Some(id_),
                       Raised("AssertionError", ""))
               /\ registered' = registered
          ELSE /\ SizeOf(bibfiles, bibliographies, cited, enum_count) < MaxSize
               /\ bibliographies' \in
                      { DictReplace(b1, docname, inner) :
                            inner \in DictInserts(DictGet(b1, docname), id_, bibcache) }
               /\ Call("set_bibliography_cache", docname, Some(id_),
                       ReturnedNone)
               /\ registered' = Append(registered, [docname |-> docname, id |-> id_])
    /\ UNCHANGED <<bibfiles, cited, enum_count>>

get_bibliography_cache(docname, id_) ==
    /\ \E b1 \in DefaultGets(bibliographies, docname, <<>>) :
          /\ bibliographies' = b1
          /\ Call("get_bibliography_cache", docname, Some(id_),
                  IF DictHas(DictGet(b1, docname), id_)
                  THEN Returned(DictGet(DictGet(b1, docname), id_))
                  ELSE Raised("KeyError", id_))
    /\ UNCHANGED <<bibfiles, cited, enum_count, registered>>

\* the collaborator that parses .bib files: a file whose modification time is
\* newer than the cached one is parsed and its entry replaced
store_bibfile(file, mtime, data) ==
    /\ FloatLess((IF file \in DOMAIN bibfiles THEN bibfiles[file]
                  ELSE BibfileCache(None, None)).mtime, mtime)
    /\ bibfiles' = FunSet(bibfiles, file, BibfileCache(Some(mtime), Some(data)))
    /\ SizeOf(bibfiles', bibliographies, cited, enum_count) <= MaxSize
    /\ Call("store_bibfile", <<>>, Some(file), ReturnedNone)
    /\ UNCHANGED <<bibliographies, cited, enum_count, registered>>

Next ==
    \/ \E docname \in Docnames : purge(docname)
    \/ \E docname \in Docnames : inc_enum_count(docname)
    \/ \E docname \in Docnames, value \in 0..MaxCount : set_enum_count(docname, value)
    \/ \E docname \in Docnames : get_enum_count(docname)
    \/ \E key \in Keys, docname \in Docnames : add_cited(key, docname)
    \/ \E key \in Keys : get_label_from_key(key)
    \/ \E docname \in Docnames, id_ \in Ids, bibcache \in BibCaches :
          set_bibliography_cache(docname, id_, bibcache)
    \/ \E docname \in Docnames, id_ \in Ids : get_bibliography_cache(docname, id_)
    \/ \E file \in Files, t \in 0..MaxMtime, data \in Datas :
          store_bibfile(file, Float(t), data)

Spec == Init /\ [][Next]_vars

\* the queries that read the cache through iteration, as calls
call_is_cited(key) ==
    /\ Call("is_cited", <<>>, Some(key), Returned(is_cited(key)))
    /\ UNCHANGED <<bibfiles, bibliographies, cited, enum_count, registered>>

call_get_all_cited_keys ==
    /\ Call("get_all_cited_keys", <<>>, None, Returned(get_all_cited_keys))
    /\ UNCHANGED <<bibfiles, bibliographies, cited, enum_count, registered>>

call_get_all_bibliography_caches ==
    /\ Call("get_all_bibliography_caches", <<>>, None,
            Returned(get_all_bibliography_caches))
    /\ UNCHANGED <<bibfiles, bibliographies, cited, enum_count, registered>>

\* every method of Cache, the iterating queries included
NextQueries ==
    \/ Next
    \/ \E key \in Keys : call_is_cited(key)
    \/ call_get_all_cited_keys
    \/ call_get_all_bibliography_caches

SpecQueries == Init /\ [][NextQueries]_vars

\* the enumeration counters alone, with room for several increments
NextCount ==
    \/ \E docname \in Docnames, value \in 0..MaxEnum : set_enum_count(docname, value)
    \/ \E docname \in Docnames : inc_enum_count_upto(docname, MaxEnum)
    \/ \E docname \in Docnames : get_enum_count(docname)
    \/ \E docname \in Docnames : purge(docname)

SpecCount == Init /\ [][NextCount]_vars

\* the part of the state that is the Cache object
cache == <<bibfiles, bibliographies, cited, enum_count>>

TypeOK ==
    /\ DOMAIN bibfiles \subseteq Files
    /\ \A i \in 1..Len(bibliographies) :
          /\ bibliographies[i].key \in Docnames
          /\ \A j \in 1..Len(bibliographies[i].value) :
                /\ bibliographies[i].value[j].key \in Ids
                /\ bibliographies[i].value[j].value \in BibCaches
    /\ \A i \in 1..Len(cited) :
          /\ cited[i].key \in Docnames
          /\ \A j \in 1..Len(cited[i].value) : cited[i].value[j] \in Keys
    /\ DOMAIN enum_count \subseteq Docnames
    /\ \A d \in DOMAIN enum_count : enum_count[d] \in Nat

\* ------------------------------------------------------------------ claims
\* the keys cited in docname d when _cited is c (none when d has no entry)
CitedIn(c, d) == IF DictHas(c, d) THEN DictGet(c, d) ELSE <<>>
IsPrefix(s, t) == Len(s) <= Len(t) /\ \A i \in 1..Len(s) : s[i] = t[i]
Elems(s) == {s[i] : i \in 1..Len(s)}
\* the docnames of the model in ascending lexicographic order: "ab", "b"
DocAb == <<1, 2>>
DocB == <<2>>

\* first-cited order: unless the document is purged, a step keeps the keys of
\* a document where they are, and add_cited(key, d) puts a key that is new
\* to d at the end of d's keys and adds nothing else
C1_FirstCitedStep ==
    \A d \in Docnames :
        /\ (last'.op = "purge" /\ last'.docname = d)
               \/ IsPrefix(CitedIn(cited, d), CitedIn(cited', d))
        /\ CitedIn(cited', d) =
               IF last'.op = "add_cited" /\ last'.docname = d
                     /\ last'.arg[1] \notin Elems(CitedIn(cited, d))
               THEN Append(CitedIn(cited, d), last'.arg[1])
               ELSE IF last'.op = "purge" /\ last'.docname = d THEN <<>>
               ELSE CitedIn(cited, d)

\* C1: after any sequence of add_cited and purge calls, get_all_cited_keys()
\* yields the keys of document "ab" followed by the keys of document "b"
\* (ascending docname order, whatever the order of the dict), and the keys of
\* one document are in first-cited order: citing a key again does not move it.
C1_CitedKeysOrder ==
    /\ [](get_all_cited_keys = CitedIn(cited, DocAb) \o CitedIn(cited, DocB))
    /\ [][C1_FirstCitedStep]_vars

\* "b" was cited first and comes first in the dict, "ab" holds y then x, and
\* the last call cited y in "ab" again: the keys come out as y, x, x
C1_Witness ==
    /\ cited = <<[key |-> DocB, value |-> <<"x">>],
                 [key |-> DocAb, value |-> <<"y", "x">>]>>
    /\ last.op = "add_cited" /\ last.docname = DocAb /\ last.arg = Some("y")
    /\ get_all_cited_keys = <<"y", "x", "x">>

\* C2: the global citation order does not depend on how the add_cited calls
\* of different documents are interleaved: from every value _cited reaches,
\* doing add_cited(k1, d1) then add_cited(k2, d2) for two different documents
\* gives the same get_all_cited_keys() as doing the two calls in the other
\* order, whatever positions the dict gives to new documents.  (Swapping
\* adjacent calls of different documents generates every interleaving; a
\* value of _cited is first reached by __init__, add_cited or purge.)
C2_InterleavingIndependent ==
    last.op \in {"__init__", "add_cited", "purge"} =>
        \A k1 \in Keys, k2 \in Keys :
            \A c1 \in add_cited_states(cited, k1, DocAb) :
            \A c12 \in add_cited_states(c1, k2, DocB) :
            \A c2 \in add_cited_states(cited, k2, DocB) :
            \A c21 \in add_cited_states(c2, k1, DocAb) :
                all_cited_keys(c12) = all_cited_keys(c21)

\* the two documents were cited, the dict iterates "b" before "ab", and the
\* keys of "ab" still come first
C2_Witness ==
    /\ last.op = "add_cited"
    /\ cited = <<[key |-> DocB, value |-> <<"x">>],
                 [key |-> DocAb, value |-> <<"y">>]>>
    /\ get_all_cited_keys = <<"y", "x">>

\* C3: in every reachable state is_cited(k) is true exactly when some tracked
\* document holds k in its cited keys; a purge leaves k cited exactly when a
\* document other than the purged one cited it; and the calls other than
\* add_cited and purge do not change is_cited.
C3_IsCited ==
    /\ [](\A k \in Keys :
             is_cited(k) <=> \E d \in Docnames : k \in Elems(CitedIn(cited, d)))
    /\ [][last'.op = "purge" =>
             \A k \in Keys :
                 is_cited_in(cited', k) <=>
                     \E d \in Docnames \ {last'.docname} :
                         k \in Elems(CitedIn(cited, d))]_vars
    /\ [][last'.op \notin {"purge", "add_cited"} =>
             \A k \in Keys : is_cited_in(cited', k) <=> is_cited_in(cited, k)]_vars

\* "ab" was purged; x is still cited, by "b", and y is cited nowhere
C3_Witness ==
    /\ last.op = "purge" /\ last.docname = DocAb
    /\ cited = <<[key |-> DocB, value |-> <<"x">>]>>
    /\ is_cited("x") /\ ~is_cited("y")

\* the directive registered as id_ of docname in the registry b
IsRegistered(b, docname, id_) ==
    DictHas(b, docname) /\ DictHas(DictGet(b, docname), id_)
RegisteredCache(b, docname, id_) == DictGet(DictGet(b, docname), id_)
\* the registered directives whose labels hold key, as (docname, id) pairs
Holding(b, key) ==
    {p \in Docnames \X Ids :
        IsRegistered(b, p[1], p[2])
            /\ key \in DOMAIN RegisteredCache(b, p[1], p[2]).labels}
\* the same directives as positions in the order of registration
HoldingByRegistration(key) ==
    {i \in 1..Len(registered) :
        key \in DOMAIN RegisteredCache(bibliographies, registered[i].docname,
                                       registered[i].id).labels}

\* C4 as claimed: when two or more registered directives hold the key,
\* get_label_from_key(key) returns the label of the one registered first.
C4_FirstRegisteredWins ==
    last.op = "get_label_from_key" =>
        LET key == last.arg[1]
            hs == HoldingByRegistration(key)
            first == registered[CHOOSE i \in hs : \A j \in hs : i <= j]
        IN Cardinality(hs) >= 2 =>
               last.result = Returned(RegisteredCache(bibliographies, first.docname,
                                                      first.id).labels[key])

\* C4 amended: when two or more registered directives hold the key,
\* get_label_from_key(key) returns without error the label of the first
\* directive, in the order get_all_bibliography_caches() yields them, that
\* holds the key: a label of one of the directives holding the key, whatever
\* the order of registration was.
C4_FirstInIterationOrderWins ==
    last.op = "get_label_from_key" =>
        LET key == last.arg[1]
            infos == get_all_bibliography_caches
        IN Cardinality(Holding(bibliographies, key)) >= 2 =>
               /\ last.result.raised = ""
               /\ \E p \in Holding(bibliographies, key) :
                      last.result =
                          Returned(RegisteredCache(bibliographies, p[1], p[2]).labels[key])
               /\ \E i \in 1..Len(infos) :
                      /\ key \in DOMAIN infos[i].labels
                      /\ last.result = Returned(infos[i].labels[key])
                      /\ \A j \in 1..(i - 1) : key \notin DOMAIN infos[j].labels

\* two directives of different documents label x differently, and the label
\* returned for x is the one of the directive registered second
C4_Witness ==
    /\ last.op = "get_label_from_key" /\ last.arg = Some("x")
    /\ Len(registered) = 2
    /\ registered[1].docname # registered[2].docname
    /\ RegisteredCache(bibliographies, registered[1].docname,
                       registered[1].id).labels["x"] = "L1"
    /\ RegisteredCache(bibliographies, registered[2].docname,
                       registered[2].id).labels["x"] = "L2"
    /\ last.result = Returned("L2")

\* C5: get_label_from_key(key) returns labels[key] of the directive when
\* exactly one registered directive holds the key, and raises KeyError
\* "<key> not found" when none does; the failed lookup changes nothing, and a
\* lookup of a missing key right after a failed lookup fails in the same way,
\* naming its own key.
C5_LabelLookup ==
    /\ [](last.op = "get_label_from_key" =>
             LET key == last.arg[1]
                 hs == Holding(bibliographies, key)
             IN /\ hs = {} =>
                       last.result = Raised("KeyError", <<key, " not found">>)
                /\ Cardinality(hs) = 1 =>
                       \A p \in hs :
                           last.result =
                               Returned(RegisteredCache(bibliographies,
                                                        p[1], p[2]).labels[key]))
    /\ [][last'.op = "get_label_from_key" => cache' = cache]_vars
    /\ [][(/\ last.op = "get_label_from_key" /\ last.result.raised = "KeyError"
            /\ last'.op = "get_label_from_key"
            /\ Holding(bibliographies, last'.arg[1]) = {})
              => last'.result = Raised("KeyError", <<last'.arg[1], " not found">>)]_vars

\* one directive is registered, it labels x only, and the lookup of y failed
C5_Witness ==
    /\ last.op = "get_label_from_key" /\ last.arg = Some("y")
    /\ last.result = Raised("KeyError", <<"y", " not found">>)
    /\ Len(registered) = 1
    /\ Holding(bibliographies, "x") # {}

\* C6: registering an id that is registered for the document raises
\* AssertionError and changes nothing of the cache; a registered
\* (docname, id) keeps its BibliographyCache in every step but a purge of
\* the document; and get_bibliography_cache(docname, id) of a registered
\* directive returns the BibliographyCache the registry holds for it.
C6_NoRebinding ==
    /\ [][(last'.op = "set_bibliography_cache"
              /\ IsRegistered(bibliographies, last'.docname, last'.arg[1]))
            => (last'.result.raised = "AssertionError" /\ cache' = cache
                   /\ registered' = registered)]_vars
    /\ [][bibliographies' # bibliographies =>
             \A d \in Docnames, i \in Ids :
                 (IsRegistered(bibliographies, d, i)
                     /\ ~(last'.op = "purge" /\ last'.docname = d))
                 => (IsRegistered(bibliographies', d, i)
                        /\ RegisteredCache(bibliographies', d, i)
                               = RegisteredCache(bibliographies, d, i))]_vars
    /\ [][(last'.op = "get_bibliography_cache"
              /\ IsRegistered(bibliographies, last'.docname, last'.arg[1]))
            => last'.result = Returned(RegisteredCache(bibliographies,
                                                       last'.docname, last'.arg[1]))]_vars

\* bib1 of "ab" is registered and registering it again has just failed
C6_Witness ==
    /\ last.op = "set_bibliography_cache" /\ last.docname = DocAb
    /\ last.arg = Some("bib1")
    /\ last.result.raised = "AssertionError"
    /\ IsRegistered(bibliographies, DocAb, "bib1")

\* C7: get_bibliography_cache(D, id) called right after purge(D) raises
\* KeyError, for every D and id and whatever was registered for D.
C7_PurgeThenGetFails ==
    [][(last.op = "purge" /\ last'.op = "get_bibliography_cache"
          /\ last'.docname = last.docname)
        => last'.result = Raised("KeyError", last'.arg[1])]_vars

\* "ab" has just been purged while a directive of "b" stays registered
C7_Witness ==
    /\ last.op = "purge" /\ last.docname = DocAb
    /\ ~DictHas(bibliographies, DocAb)
    /\ IsRegistered(bibliographies, DocB, "bib1")

\* C8: add_cited(k, D) called again right after add_cited(k, D) changes
\* nothing: the cited keys of D and their order, and every other field, are
\* as after the first call (so N >= 1 calls in a row equal one call).
C8_AddCitedIdempotent ==
    [][(last.op = "add_cited" /\ last'.op = "add_cited"
          /\ last'.docname = last.docname /\ last'.arg = last.arg)
        => (cache' = cache /\ registered' = registered)]_vars

\* y was cited in "ab" before x, and the last call cited y in "ab" again
C8_Witness ==
    /\ last.op = "add_cited" /\ last.docname = DocAb /\ last.arg = Some("y")
    /\ cited = <<[key |-> DocAb, value |-> <<"y", "x">>]>>

\* docname has an entry in one of the per-document dicts
HasState(docname) ==
    \/ DictHas(bibliographies, docname)
    \/ DictHas(cited, docname)
    \/ docname \in DOMAIN enum_count

\* C9: purge(D) never raises; on a document with no recorded state it leaves
\* the whole cache unchanged; and a purge(D) right after purge(D) changes
\* nothing.
C9_PurgeIdempotent ==
    /\ [](last.op = "purge" => last.result = ReturnedNone)
    /\ [][(last'.op = "purge" /\ ~HasState(last'.docname))
            => (cache' = cache /\ registered' = registered)]_vars
    /\ [][(last.op = "purge" /\ last'.op = "purge"
              /\ last'.docname = last.docname)
            => (cache' = cache /\ registered' = registered)]_vars

\* "ab" has been purged and holds nothing, while "b" keeps a directive, a
\* cited key and a counter
C9_Witness ==
    /\ last.op = "purge" /\ last.docname = DocAb /\ last.result = ReturnedNone
    /\ ~HasState(DocAb)
    /\ IsRegistered(bibliographies, DocB, "bib2")
    /\ DictHas(cited, DocB)
    /\ DocB \in DOMAIN enum_count

\* C10: no method of Cache changes bibfiles (only the collaborator that
\* parses .bib files does), and a file that has an entry keeps having one.
C10_BibfilesKept ==
    /\ [][last'.op # "store_bibfile" => bibfiles' = bibfiles]_vars
    /\ [][DOMAIN bibfiles \subseteq DOMAIN bibfiles']_vars

\* a document that had state has just been purged and the entry of refs.bib,
\* with its modification time and data, is still there
C10_Witness ==
    /\ last.op = "purge"
    /\ "refs.bib" \in DOMAIN bibfiles
    /\ bibfiles["refs.bib"] = [mtime |-> Float(1), data |-> {"x"}]
    /\ cited # <<>>

\* n times enum_inc on the counter of docname
RECURSIVE IncTimes(_, _, _)
IncTimes(e, docname, n) ==
    IF n = 0 THEN e ELSE IncTimes(enum_inc(e, docname), docname, n - 1)

\* C11: a successful inc_enum_count(D) raises the counter of D, and so the
\* value get_enum_count(D) returns, by exactly 1 and touches nothing else;
\* right after set_enum_count(D, 1) one increment gives 2; and from every
\* reachable state, setting the counter of D to v and incrementing it n
\* times (n up to 3) gives v + n: 1 and three increments give 4.
C11_IncrementByOne ==
    /\ [][(last'.op = "inc_enum_count" /\ last'.result = ReturnedNone)
            => /\ last'.docname \in DOMAIN enum_count
               /\ enum_count' = [enum_count EXCEPT
                                    ![last'.docname] = enum_count[last'.docname] + 1]
               /\ <<bibfiles, bibliographies, cited>>' = <<bibfiles, bibliographies, cited>>]_vars
    /\ [](last.op = "get_enum_count" /\ last.docname \in DOMAIN enum_count
            => last.result = Returned(enum_count[last.docname]))
    /\ [][(last.op = "set_enum_count" /\ last.arg = Some(1)
              /\ last'.op = "inc_enum_count" /\ last'.docname = last.docname)
            => (last'.result = ReturnedNone /\ enum_count'[last'.docname] = 2)]_vars
    /\ [](\A d \in Docnames, v \in 0..MaxEnum, n \in 0..3 :
             IncTimes(FunSet(enum_count, d, v), d, n)[d] = v + n)

\* the counter of "ab" has just been incremented to 4, the counter of "b" is 1
C11_Witness ==
    /\ last.op = "inc_enum_count" /\ last.docname = DocAb
    /\ last.result = ReturnedNone
    /\ enum_count = [d \in Docnames |-> IF d = DocAb THEN 4 ELSE 1]

\* C12: get_enum_count(D) and inc_enum_count(D) for a document without a
\* counter (never set, or purged since) raise KeyError and change nothing,
\* so no counter is created; a purge leaves the document without a counter;
\* a counter that exists is returned as it is, and right after
\* set_enum_count(D, 0) get_enum_count(D) returns 0, which is not an error.
C12_MissingCounter ==
    /\ [][(last'.op \in {"get_enum_count", "inc_enum_count"}
              /\ last'.docname \notin DOMAIN enum_count)
            => (last'.result = Raised("KeyError", last'.docname)
                   /\ last'.result # Returned(0)
                   /\ cache' = cache)]_vars
    /\ [][last'.op = "purge" => last'.docname \notin DOMAIN enum_count']_vars
    /\ [](last.op = "get_enum_count" =>
             IF last.docname \in DOMAIN enum_count
             THEN last.result = Returned(enum_count[last.docname])
             ELSE last.result.raised = "KeyError")
    /\ [][(last.op = "set_enum_count" /\ last.arg = Some(0)
              /\ last'.op = "get_enum_count" /\ last'.docname = last.docname)
            => last'.result = Returned(0)]_vars

\* reading the counter of "ab", which has none, has just failed, while the
\* counter of "b" is 0
C12_Witness ==
    /\ last.op = "get_enum_count" /\ last.docname = DocAb
    /\ last.result = Raised("KeyError", DocAb)
    /\ DOMAIN enum_count = {DocB} /\ enum_count[DocB] = 0

\* C13: BibfileCache() has empty data and a modification time that is
\* older than every file timestamp (negative, zero or positive) and newer
\* than none; BibfileCache(mtime, data) holds exactly mtime and data; so
\* every entry of bibfiles holds the finite time and the data it was stored
\* with, and the first store of a file goes through whatever its time.
C13_BibfileCacheDefaults ==
    /\ [](/\ BibfileCache(None, None).data = {}
          /\ \A t \in (0 - 1)..MaxMtime :
                /\ FloatLess(BibfileCache(None, None).mtime, Float(t))
                /\ ~FloatLess(Float(t), BibfileCache(None, None).mtime)
          /\ \A t \in (0 - 1)..MaxMtime, data \in Datas \cup {{}} :
                BibfileCache(Some(Float(t)), Some(data))
                    = [mtime |-> Float(t), data |-> data]
          /\ \A f \in DOMAIN bibfiles :
                /\ bibfiles[f].mtime \in {Float(t) : t \in 0..MaxMtime}
                /\ bibfiles[f].data \in Datas)
    /\ [][(last'.op = "store_bibfile" /\ last'.arg[1] \notin DOMAIN bibfiles)
            => last'.arg[1] \in DOMAIN bibfiles']_vars

\* refs.bib, which had no entry, has just been stored with time 0
C13_Witness ==
    /\ last.op = "store_bibfile" /\ last.arg = Some("refs.bib")
    /\ bibfiles["refs.bib"] = [mtime |-> Float(0), data |-> {"x"}]

\* the entry of docname in the dict d, as a dict of that one entry or none
EntryOf(d, docname) == SelectSeq(d, LAMBDA e : e.key = docname)

\* C14: purge(D) removes the state of D and nothing else: after it D has no
\* directives, cited keys or counter, and every other document has the
\* directives (ids, BibliographyCaches and their order), the cited keys and
\* their order, and the counter it had before; bibfiles is untouched.
C14_PurgeFrame ==
    [][last'.op = "purge" =>
          /\ ~DictHas(bibliographies', last'.docname)
          /\ ~DictHas(cited', last'.docname)
          /\ last'.docname \notin DOMAIN enum_count'
          /\ \A d \in Docnames \ {last'.docname} :
                /\ EntryOf(bibliographies', d) = EntryOf(bibliographies, d)
                /\ EntryOf(cited', d) = EntryOf(cited, d)
                /\ (d \in DOMAIN enum_count') = (d \in DOMAIN enum_count)
                /\ d \in DOMAIN enum_count => enum_count'[d] = enum_count[d]
          /\ bibfiles' = bibfiles]_vars

\* "b" has just been purged; "ab" keeps its directive bib1, its cited keys
\* y, x in that order, and nothing is left of "b"
C14_Witness ==
    /\ last.op = "purge" /\ last.docname = DocB
    /\ DictKeys(bibliographies) = <<DocAb>>
    /\ IsRegistered(bibliographies, DocAb, "bib1")
    /\ cited = <<[key |-> DocAb, value |-> <<"y", "x">>]>>
    /\ DOMAIN enum_count = {}

\* C15: a document can be processed again after purge: a
\* set_bibliography_cache(D, id, bibcache) right after purge(D) succeeds for
\* every id and registers bibcache, and a get_bibliography_cache(D, id)
\* right after a successful registration returns the registered
\* BibliographyCache; after purge(D) the document has no cited keys and no
\* counter (reading it fails), a registration brings neither back, and
\* they appear again only by add_cited(.., D) and set_enum_count(D, ..).
C15_Step ==
    /\ (last'.op = "set_bibliography_cache" /\ last.op = "purge"
           /\ last'.docname = last.docname)
          => \A id_ \in Ids, bibcache \in BibCaches :
                (last'.arg = Some(id_)
                    /\ set_bibliography_cache(last.docname, id_, bibcache))
                => (/\ last'.result = ReturnedNone
                    /\ IsRegistered(bibliographies', last.docname, id_)
                    /\ RegisteredCache(bibliographies', last.docname, id_)
                           = bibcache)
    /\ (/\ last'.op = "get_bibliography_cache"
         /\ last.op = "set_bibliography_cache" /\ last.result.raised = ""
         /\ last'.docname = last.docname /\ last'.arg = last.arg)
          => last'.result = Returned(RegisteredCache(bibliographies, last.docname,
                                                     last.arg[1]))
    /\ last'.op = "purge" =>
          (~DictHas(cited', last'.docname)
              /\ last'.docname \notin DOMAIN enum_count')
    /\ (last'.op = "get_enum_count" /\ last.op = "purge"
           /\ last'.docname = last.docname)
          => last'.result = Raised("KeyError", last.docname)
    /\ last'.op = "set_bibliography_cache" =>
          (cited' = cited /\ enum_count' = enum_count)
    /\ (cited' # cited \/ enum_count' # enum_count) =>
          \A d \in Docnames :
             /\ (~DictHas(cited, d) /\ DictHas(cited', d))
                    => (last'.op = "add_cited" /\ last'.docname = d)
             /\ (d \notin DOMAIN enum_count /\ d \in DOMAIN enum_count')
                    => (last'.op = "set_enum_count" /\ last'.docname = d)

C15_ReprocessAfterPurge == [][C15_Step]_vars

\* bib1 of "ab" has just been registered, after bib1 of "b"; "ab" has no cited
\* keys and no counter while "b" has a cited key
C15_Witness ==
    /\ last.op = "set_bibliography_cache" /\ last.docname = DocAb
    /\ last.arg = Some("bib1") /\ last.result = ReturnedNone
    /\ registered = <<[docname |-> DocB, id |-> "bib1"],
                      [docname |-> DocAb, id |-> "bib1"]>>
    /\ ~DictHas(cited, DocAb) /\ DictHas(cited, DocB)
    /\ DocAb \notin DOMAIN enum_count

\* the registered directives, as (docname, id) pairs
RegisteredPairs ==
    {p \in Docnames \X Ids : IsRegistered(bibliographies, p[1], p[2])}

\* C16: get_all_bibliography_caches() yields every registered
\* BibliographyCache exactly once and nothing else: its items correspond one
\* to one to the registered (docname, id) pairs, which are the pairs
\* registered and not purged since, and the directives of one document are
\* next to each other.  (The registry changes by set_bibliography_cache,
\* get_bibliography_cache and purge only, so it is read after these.)
C16_AllBibliographies ==
    last.op \in {"__init__", "set_bibliography_cache", "get_bibliography_cache",
                 "purge"} =>
        LET infos == get_all_bibliography_caches
        IN /\ Len(infos) = Cardinality(RegisteredPairs)
           /\ {<<registered[i].docname, registered[i].id>> :
                   i \in 1..Len(registered)} = RegisteredPairs
           /\ Len(registered) = Cardinality(RegisteredPairs)
           /\ \E f \in [1..Len(infos) -> RegisteredPairs] :
                  /\ \A i \in 1..Len(infos), j \in 1..Len(infos) :
                        i # j => f[i] # f[j]
                  /\ \A i \in 1..Len(infos) :
                        infos[i] = RegisteredCache(bibliographies, f[i][1], f[i][2])
                  /\ \A i \in 1..Len(infos), k \in 1..Len(infos) :
                        (i < k /\ f[i][1] = f[k][1])
                            => \A j \in i..k : f[j][1] = f[i][1]

\* three directives are registered, two of "ab" and one of "b", the last of
\* them just now, and three BibliographyCaches are yielded
C16_Witness ==
    /\ last.op = "set_bibliography_cache" /\ last.result = ReturnedNone
    /\ Len(get_all_bibliography_caches) = 3
    /\ IsRegistered(bibliographies, DocAb, "bib1")
    /\ IsRegistered(bibliographies, DocAb, "bib2")
    /\ IsRegistered(bibliographies, DocB, "bib1")

QueryOps ==
    {"get_bibliography_cache", "get_label_from_key", "is_cited",
     "get_all_cited_keys", "get_all_bibliography_caches", "get_enum_count"}

\* C17 as claimed: a query (get_bibliography_cache, whether it returns or
\* raises KeyError, get_label_from_key, is_cited, get_all_cited_keys,
\* get_all_bibliography_caches, get_enum_count) leaves the whole cache
\* unchanged, the docnames that are keys of _bibliographies and of _cited
\* and their iteration order included.
C17_QueriesPure ==
    [][last'.op \in QueryOps =>
          /\ cache' = cache
          /\ DictKeys(bibliographies') = DictKeys(bibliographies)
          /\ DictKeys(cited') = DictKeys(cited)]_vars

\* how many times k occurs in the sequence s
Count(s, k) == Cardinality({i \in 1..Len(s) : s[i] = k})
\* the tracked documents whose citation group holds k
CitingDocs(k) == {d \in Docnames : DictHas(cited, d) /\ OsetHas(DictGet(cited, d), k)}

\* C18: get_all_cited_keys() yields a key once for every tracked document
\* that cites it, with no deduplication across documents, and once only in
\* the group of a document, however many times add_cited was called for it
\* there: right after add_cited(k, d) the group of d holds k exactly once.
C18_NoCrossDocumentDedup ==
    /\ \A k \in Keys : Count(get_all_cited_keys, k) = Cardinality(CitingDocs(k))
    /\ \A d \in Docnames, k \in Keys : Count(CitedIn(cited, d), k) <= 1
    /\ last.op = "add_cited" =>
           /\ Count(CitedIn(cited, last.docname), last.arg[1]) = 1
           /\ last.docname \in CitingDocs(last.arg[1])

\* "x" cited in both documents and added a second time to "b": yielded twice
C18_Witness ==
    /\ last.op = "add_cited" /\ last.docname = DocB /\ last.arg = Some("x")
    /\ cited = <<[key |-> DocAb, value |-> <<"x">>],
                 [key |-> DocB, value |-> <<"y", "x">>]>>
    /\ get_all_cited_keys = <<"x", "y", "x">>
    /\ Count(get_all_cited_keys, "x") = 2
=============================================================================
